---- MODULE Spec2Model ----
(***************************************************************************)
(* Model of the Hack assembler of projects/06/Assembler.py: the Parser     *)
(* (line normalisation, cursor, command decomposition), the Code tables,   *)
(* the SymbolTable and the two passes of main().                           *)
(* Strings are sequences of one-character strings, so that slicing,        *)
(* splitting, int() and bin() are computed as the code computes them.      *)
(***************************************************************************)
EXTENDS Integers, Sequences, FiniteSets, TLC

VARIABLES lines, commands, command_index, current_command, symbol_table,
          rom_address, ram_address, binprog, pc,
          run, first_binprog, first_symbol_table, first_pc

\* What an earlier run of the program on the same input file left: the
\* number of the current run, and the output, final symbol table and end
\* state of the first run.
history == <<run, first_binprog, first_symbol_table, first_pc>>

vars == <<lines, commands, command_index, current_command, symbol_table,
          rom_address, ram_address, binprog, pc, history>>

\* ------------------------------------------------------------------------
\* Bounds
\* ------------------------------------------------------------------------
MaxLen == 3
MaxLineLen == 3

\* ------------------------------------------------------------------------
\* Python values and string primitives
\* ------------------------------------------------------------------------
\* None and a raised KeyError, kept apart from every character sequence
\* (characters are one-character strings).
None == <<"None">>
KeyError == <<"KeyError">>

A_COMMAND == "A_COMMAND"
C_COMMAND == "C_COMMAND"
L_COMMAND == "L_COMMAND"

Digits == {"0", "1", "2", "3", "4", "5", "6", "7", "8", "9"}
Whitespace == {" ", "\t", "\n", "\r"}

DigitValue(c) ==
    CASE c = "0" -> 0 [] c = "1" -> 1 [] c = "2" -> 2 [] c = "3" -> 3
      [] c = "4" -> 4 [] c = "5" -> 5 [] c = "6" -> 6 [] c = "7" -> 7
      [] c = "8" -> 8 [] c = "9" -> 9

\* str.isdigit(): non-empty and every character a digit.
isdigit(s) == Len(s) > 0 /\ \A i \in 1..Len(s) : s[i] \in Digits

\* int(s) of a decimal digit string.
RECURSIVE int(_)
int(s) ==
    IF Len(s) = 0 THEN 0
    ELSE 10 * int(SubSeq(s, 1, Len(s) - 1)) + DigitValue(s[Len(s)])

\* str(bin(n))[2:]: the binary digits of n, no leading zeros ("0" for 0).
RECURSIVE bin(_)
bin(n) ==
    IF n < 2 THEN <<IF n = 1 THEN "1" ELSE "0">>
    ELSE bin(n \div 2) \o <<IF n % 2 = 1 THEN "1" ELSE "0">>

\* s.rjust(width, fill): pads on the left, never truncates.
RECURSIVE rjust(_, _, _)
rjust(s, width, fill) ==
    IF Len(s) >= width THEN s ELSE rjust(<<fill>> \o s, width, fill)

\* sep occurs in s at position i.
OccursAt(s, sep, i) ==
    /\ i + Len(sep) - 1 <= Len(s)
    /\ \A k \in 1..Len(sep) : s[i + k - 1] = sep[k]

\* "sep in s"
Contains(s, sep) == \E i \in 1..Len(s) : OccursAt(s, sep, i)

\* s.split(sep): the parts of s between the occurrences of sep, left to right.
RECURSIVE split(_, _)
split(s, sep) ==
    IF ~Contains(s, sep) THEN <<s>>
    ELSE LET k == CHOOSE i \in 1..Len(s) :
                    /\ OccursAt(s, sep, i)
                    /\ \A j \in 1..(i - 1) : ~OccursAt(s, sep, j)
         IN <<SubSeq(s, 1, k - 1)>> \o split(SubSeq(s, k + Len(sep), Len(s)), sep)

\* "".join(line.split()): the line without any whitespace character.
RemoveWhitespace(line) == SelectSeq(line, LAMBDA c : c \notin Whitespace)
\* ------------------------------------------------------------------------
\* Fixed tables
\* ------------------------------------------------------------------------

predefined_variable_symbols ==
    (<<"S", "P">> :> 0) @@
    (<<"L", "C", "L">> :> 1) @@
    (<<"A", "R", "G">> :> 2) @@
    (<<"T", "H", "I", "S">> :> 3) @@
    (<<"T", "H", "A", "T">> :> 4) @@
    (<<"R", "0">> :> 0) @@
    (<<"R", "1">> :> 1) @@
    (<<"R", "2">> :> 2) @@
    (<<"R", "3">> :> 3) @@
    (<<"R", "4">> :> 4) @@
    (<<"R", "5">> :> 5) @@
    (<<"R", "6">> :> 6) @@
    (<<"R", "7">> :> 7) @@
    (<<"R", "8">> :> 8) @@
    (<<"R", "9">> :> 9) @@
    (<<"R", "1", "0">> :> 10) @@
    (<<"R", "1", "1">> :> 11) @@
    (<<"R", "1", "2">> :> 12) @@
    (<<"R", "1", "3">> :> 13) @@
    (<<"R", "1", "4">> :> 14) @@
    (<<"R", "1", "5">> :> 15) @@
    (<<"S", "C", "R", "E", "E", "N">> :> 16384) @@
    (<<"K", "B", "D">> :> 24576)

dest_table ==
    (<<"n", "u", "l", "l">> :> <<"0", "0", "0">>) @@
    (<<"M">> :> <<"0", "0", "1">>) @@
    (<<"D">> :> <<"0", "1", "0">>) @@
    (<<"M", "D">> :> <<"0", "1", "1">>) @@
    (<<"A">> :> <<"1", "0", "0">>) @@
    (<<"A", "M">> :> <<"1", "0", "1">>) @@
    (<<"A", "D">> :> <<"1", "1", "0">>) @@
    (<<"A", "M", "D">> :> <<"1", "1", "1">>)

comp_table ==
    (<<"0">> :> <<"0", "1", "0", "1", "0", "1", "0">>) @@
    (<<"1">> :> <<"0", "1", "1", "1", "1", "1", "1">>) @@
    (<<"-", "1">> :> <<"0", "1", "1", "1", "0", "1", "0">>) @@
    (<<"D">> :> <<"0", "0", "0", "1", "1", "0", "0">>) @@
    (<<"A">> :> <<"0", "1", "1", "0", "0", "0", "0">>) @@
    (<<"!", "D">> :> <<"0", "0", "0", "1", "1", "0", "1">>) @@
    (<<"!", "A">> :> <<"0", "1", "1", "0", "0", "0", "1">>) @@
    (<<"-", "D">> :> <<"0", "0", "0", "1", "1", "1", "1">>) @@
    (<<"-", "A">> :> <<"0", "1", "1", "0", "0", "1", "1">>) @@
    (<<"D", "+", "1">> :> <<"0", "0", "1", "1", "1", "1", "1">>) @@
    (<<"A", "+", "1">> :> <<"0", "1", "1", "0", "1", "1", "1">>) @@
    (<<"D", "-", "1">> :> <<"0", "0", "0", "1", "1", "1", "0">>) @@
    (<<"A", "-", "1">> :> <<"0", "1", "1", "0", "0", "1", "0">>) @@
    (<<"D", "+", "A">> :> <<"0", "0", "0", "0", "0", "1", "0">>) @@
    (<<"D", "-", "A">> :> <<"0", "0", "1", "0", "0", "1", "1">>) @@
    (<<"A", "-", "D">> :> <<"0", "0", "0", "0", "1", "1", "1">>) @@
    (<<"D", "&", "A">> :> <<"0", "0", "0", "0", "0", "0", "0">>) @@
    (<<"D", "|", "A">> :> <<"0", "0", "1", "0", "1", "0", "1">>) @@
    (<<"M">> :> <<"1", "1", "1", "0", "0", "0", "0">>) @@
    (<<"!", "M">> :> <<"1", "1", "1", "0", "0", "0", "1">>) @@
    (<<"-", "M">> :> <<"1", "1", "1", "0", "0", "1", "1">>) @@
    (<<"M", "+", "1">> :> <<"1", "1", "1", "0", "1", "1", "1">>) @@
    (<<"M", "-", "1">> :> <<"1", "1", "1", "0", "0", "1", "0">>) @@
    (<<"D", "+", "M">> :> <<"1", "0", "0", "0", "0", "1", "0">>) @@
    (<<"D", "-", "M">> :> <<"1", "0", "1", "0", "0", "1", "1">>) @@
    (<<"M", "-", "D">> :> <<"1", "0", "0", "0", "1", "1", "1">>) @@
    (<<"D", "&", "M">> :> <<"1", "0", "0", "0", "0", "0", "0">>) @@
    (<<"D", "|", "M">> :> <<"1", "0", "1", "0", "1", "0", "1">>)

jump_table ==
    (<<"n", "u", "l", "l">> :> <<"0", "0", "0">>) @@
    (<<"J", "G", "T">> :> <<"0", "0", "1">>) @@
    (<<"J", "E", "Q">> :> <<"0", "1", "0">>) @@
    (<<"J", "G", "E">> :> <<"0", "1", "1">>) @@
    (<<"J", "L", "T">> :> <<"1", "0", "0">>) @@
    (<<"J", "N", "E">> :> <<"1", "0", "1">>) @@
    (<<"J", "L", "E">> :> <<"1", "1", "0">>) @@
    (<<"J", "M", "P">> :> <<"1", "1", "1">>)

\* ------------------------------------------------------------------------
\* Parser
\* ------------------------------------------------------------------------
\* Variant: the comment is cut off before the whitespace is removed.
StripLine_commentFirst(line) == RemoveWhitespace(split(line, <<"/", "/">>)[1])

\* One line of Parser.__init__'s loop: whitespace removed, then cut at the
\* first "//".
StripLine(line) == split(RemoveWhitespace(line), <<"/", "/">>)[1]

\* Parser.__init__: the stripped lines that have something remaining.
RECURSIVE Parser_init(_)
Parser_init(ls) ==
    IF Len(ls) = 0 THEN <<>>
    ELSE LET line == StripLine(Head(ls))
         IN (IF Len(line) > 0 THEN <<line>> ELSE <<>>) \o Parser_init(Tail(ls))

\* Variant: the last command is never reached.
has_more_commands_offByOne == command_index < Len(commands) - 1

has_more_commands == command_index < Len(commands)

command_type(cmd) ==
    IF cmd[1] = "@" THEN A_COMMAND
    ELSE IF cmd[1] = "(" THEN L_COMMAND
    ELSE C_COMMAND

\* cmd[1:] for @Xxx, cmd[1:-1] for (Xxx).
symbol(cmd) ==
    IF command_type(cmd) = A_COMMAND THEN SubSeq(cmd, 2, Len(cmd))
    ELSE SubSeq(cmd, 2, Len(cmd) - 1)

Parser_dest(cmd) ==
    IF Contains(cmd, <<"=">>) THEN split(cmd, <<"=">>)[1] ELSE None

\* Variant: the case of a command with both "=" and ";" is missing.
Parser_comp_noBothCase(cmd) ==
    IF Contains(cmd, <<"=">>) THEN split(cmd, <<"=">>)[2]
    ELSE split(cmd, <<";">>)[1]

Parser_comp(cmd) ==
    IF Contains(cmd, <<"=">>) /\ Contains(cmd, <<";">>)
    THEN split(split(cmd, <<"=">>)[2], <<";">>)[1]
    ELSE IF Contains(cmd, <<"=">>) THEN split(cmd, <<"=">>)[2]
    ELSE split(cmd, <<";">>)[1]

Parser_jump(cmd) ==
    IF Contains(cmd, <<";">>) THEN split(cmd, <<";">>)[2] ELSE None

\* Python truth value of a string-or-None.
Truthy(s) == s # None /\ Len(s) > 0

\* ------------------------------------------------------------------------
\* Code: a lookup of a missing key raises KeyError
\* ------------------------------------------------------------------------
Code_dest(mnemonic) ==
    LET m == IF mnemonic = None THEN <<"n", "u", "l", "l">> ELSE mnemonic
    IN IF m \in DOMAIN dest_table THEN dest_table[m] ELSE KeyError

\* Variant: an unknown mnemonic gets a default code (dict.get) instead of
\* raising.
Code_comp_default(mnemonic) ==
    IF mnemonic \in DOMAIN comp_table THEN comp_table[mnemonic]
    ELSE <<"0", "0", "0", "0", "0", "0", "0">>

Code_comp(mnemonic) ==
    IF mnemonic \in DOMAIN comp_table THEN comp_table[mnemonic] ELSE KeyError

Code_jump(mnemonic) ==
    LET m == IF mnemonic = None THEN <<"n", "u", "l", "l">> ELSE mnemonic
    IN IF m \in DOMAIN jump_table THEN jump_table[m] ELSE KeyError

\* ------------------------------------------------------------------------
\* SymbolTable
\* ------------------------------------------------------------------------
SymbolTable_init == <<>>

contains(table, sym) == sym \in DOMAIN table

\* Variant: the last inserted address wins.
add_entry_overwrite(table, sym, address) ==
    [s \in DOMAIN table \cup {sym} |-> IF s = sym THEN address ELSE table[s]]

add_entry(table, sym, address) ==
    IF ~contains(table, sym) THEN (sym :> address) @@ table ELSE table

get_address(table, sym) ==
    IF contains(table, sym) THEN table[sym] ELSE None

\* ------------------------------------------------------------------------
\* main: the code generation of pass 2
\* ------------------------------------------------------------------------
\* Variant: a new variable gets its address but is not entered in the table.
Resolve_forgetsEntry(sym, table, ram) ==
    IF isdigit(sym)
    THEN [address |-> int(sym), table |-> table, ram |-> ram]
    ELSE IF contains(table, sym)
    THEN [address |-> get_address(table, sym), table |-> table, ram |-> ram]
    ELSE LET predefined == sym \in DOMAIN predefined_variable_symbols
             address == IF predefined THEN predefined_variable_symbols[sym]
                        ELSE ram
         IN [address |-> address, table |-> table,
             ram |-> IF predefined THEN ram ELSE ram + 1]

\* Variant: the symbol table is consulted before the literal test.
Resolve_tableFirst(sym, table, ram) ==
    IF contains(table, sym)
    THEN [address |-> get_address(table, sym), table |-> table, ram |-> ram]
    ELSE IF isdigit(sym)
    THEN [address |-> int(sym), table |-> table, ram |-> ram]
    ELSE LET predefined == sym \in DOMAIN predefined_variable_symbols
             address == IF predefined THEN predefined_variable_symbols[sym]
                        ELSE ram
             t == add_entry(table, sym, address)
         IN [address |-> get_address(t, sym), table |-> t,
             ram |-> IF predefined THEN ram ELSE ram + 1]

\* Variant: the RAM counter advances on every table miss, a predefined
\* symbol included.
Resolve_alwaysAdvance(sym, table, ram) ==
    IF isdigit(sym)
    THEN [address |-> int(sym), table |-> table, ram |-> ram]
    ELSE IF contains(table, sym)
    THEN [address |-> get_address(table, sym), table |-> table, ram |-> ram]
    ELSE LET predefined == sym \in DOMAIN predefined_variable_symbols
             address == IF predefined THEN predefined_variable_symbols[sym]
                        ELSE ram
             t == add_entry(table, sym, address)
         IN [address |-> get_address(t, sym), table |-> t, ram |-> ram + 1]

\* Lines 117-128: the address of an A-command's symbol, with the symbol
\* table and the RAM counter as the lookup leaves them.
Resolve(sym, table, ram) ==
    IF isdigit(sym)
    THEN [address |-> int(sym), table |-> table, ram |-> ram]
    ELSE IF contains(table, sym)
    THEN [address |-> get_address(table, sym), table |-> table, ram |-> ram]
    ELSE LET predefined == sym \in DOMAIN predefined_variable_symbols
             address == IF predefined THEN predefined_variable_symbols[sym]
                        ELSE ram
             t == add_entry(table, sym, address)
         IN [address |-> get_address(t, sym), table |-> t,
             ram |-> IF predefined THEN ram ELSE ram + 1]

\* Lines 129-131.
AWord(address) == rjust(<<"0">> \o bin(address), 16, "0")

\* Variant: the jump code is appended before the destination code.
CWord_jumpBeforeDest(cmd) ==
    LET c == Code_comp(Parser_comp(cmd))
        d == IF Truthy(Parser_dest(cmd)) THEN Code_dest(Parser_dest(cmd))
             ELSE <<"0", "0", "0">>
        j == IF Truthy(Parser_jump(cmd)) THEN Code_jump(Parser_jump(cmd))
             ELSE <<"0", "0", "0">>
    IN IF c = KeyError THEN KeyError
       ELSE IF d = KeyError THEN KeyError
       ELSE IF j = KeyError THEN KeyError
       ELSE <<"1", "1", "1">> \o c \o j \o d

\* Lines 133-142: the word of a C-command, or the KeyError of the first
\* failing lookup (comp, then dest, then jump).
CWord(cmd) ==
    LET c == Code_comp(Parser_comp(cmd))
        d == IF Truthy(Parser_dest(cmd)) THEN Code_dest(Parser_dest(cmd))
             ELSE <<"0", "0", "0">>
        j == IF Truthy(Parser_jump(cmd)) THEN Code_jump(Parser_jump(cmd))
             ELSE <<"0", "0", "0">>
    IN IF c = KeyError THEN KeyError
       ELSE IF d = KeyError THEN KeyError
       ELSE IF j = KeyError THEN KeyError
       ELSE <<"1", "1", "1">> \o c \o d \o j

\* Variant: the line is put at the front of the file.
write_front(file, bincode) == <<bincode>> \o file

\* binprog.write(bincode + "\n"): one more line at the end of the file.
write(file, bincode) == Append(file, bincode)

\* ------------------------------------------------------------------------
\* Input programs
\* ------------------------------------------------------------------------
LineVocab ==
    { <<"@", "2">>,
      <<"@", "3", "2", "7", "6", "7">>,
      <<"@", "3", "2", "7", "6", "8">>,
      <<"(", "L", "O", "O", "P", ")">>,
      <<"@", "L", "O", "O", "P">>,
      <<"(", "2", ")">>,
      <<"(", "K", "B", "D", ")">>,
      <<"@", "K", "B", "D">>,
      <<"@", "f", "o", "o">>,
      <<"@", "b", "a", "r">>,
      <<" ", "D", " ", "=", "A", "\t", "/", "/", "c", "\n">>,
      <<"0", ";", "J", "M", "P", "\n">>,
      <<"D", "=", "X">>,
      <<"/", "/", " ", "c", "\n">> }

RECURSIVE SeqsUpTo(_, _)
SeqsUpTo(S, n) ==
    IF n = 0 THEN {<<>>}
    ELSE LET shorter == SeqsUpTo(S, n - 1)
         IN shorter \cup {Append(s, x) : s \in shorter, x \in S}

\* ------------------------------------------------------------------------
\* main
\* ------------------------------------------------------------------------
\* The state after Parser(infile_name), SymbolTable() and line 73, for an
\* input file that holds one of the given programs.
InitOn(programs) ==
    /\ lines \in programs
    /\ commands = Parser_init(lines)
    /\ command_index = 0
    /\ current_command = None
    /\ symbol_table = SymbolTable_init
    /\ rom_address = 0
    /\ ram_address = 0          \* not bound before line 107
    /\ binprog = <<>>           \* nothing written before line 98
    /\ pc = "pass1"
    /\ run = 1
    /\ first_binprog = <<>>
    /\ first_symbol_table = <<>>
    /\ first_pc = "none"

Init == InitOn(SeqsUpTo(LineVocab, MaxLen))

\* Variant: the cursor is not moved.
advance_noIncrement ==
    /\ current_command' = commands[command_index + 1]
    /\ command_index' = command_index

\* Parser.advance
advance ==
    /\ current_command' = commands[command_index + 1]
    /\ command_index' = command_index + 1

\* Lines 74-77: an iteration of the first pass on a label.
Pass1Label ==
    /\ pc = "pass1"
    /\ has_more_commands
    /\ advance
    /\ command_type(current_command') = L_COMMAND
    /\ symbol_table' = add_entry(symbol_table, symbol(current_command'), rom_address)
    /\ UNCHANGED <<history, lines, commands, rom_address, ram_address, binprog, pc>>

\* Variant: the first pass looks the mnemonics of a C-command up and stops
\* on a KeyError.
Pass1Instruction_validates ==
    /\ pc = "pass1"
    /\ has_more_commands
    /\ advance
    /\ command_type(current_command') # L_COMMAND
    /\ command_type(current_command') = C_COMMAND => CWord(current_command') # KeyError
    /\ rom_address' = rom_address + 1
    /\ UNCHANGED <<history, lines, commands, symbol_table, ram_address, binprog, pc>>

\* Lines 74-79: an iteration of the first pass on an A- or C-command.
Pass1Instruction ==
    /\ pc = "pass1"
    /\ has_more_commands
    /\ advance
    /\ command_type(current_command') # L_COMMAND
    /\ rom_address' = rom_address + 1
    /\ UNCHANGED <<history, lines, commands, symbol_table, ram_address, binprog, pc>>

\* Variant: the cursor is not put back to the beginning (lines 104-105 are
\* missing).
Rewind_noReset ==
    /\ pc = "pass1"
    /\ ~has_more_commands
    /\ binprog' = <<>>
    /\ ram_address' = 16
    /\ pc' = "pass2"
    /\ UNCHANGED <<history, lines, commands, command_index, current_command,
                   symbol_table, rom_address>>

\* Variant: the symbol table is built anew for the second pass.
Rewind_freshTable ==
    /\ pc = "pass1"
    /\ ~has_more_commands
    /\ binprog' = <<>>
    /\ command_index' = 0
    /\ current_command' = None
    /\ ram_address' = 16
    /\ pc' = "pass2"
    /\ symbol_table' = SymbolTable_init
    /\ UNCHANGED <<history, lines, commands, rom_address>>

\* Lines 93-107: the first loop is over; the output file is opened empty,
\* the parser is rewound and the RAM counter starts at 16.
Rewind ==
    /\ pc = "pass1"
    /\ ~has_more_commands
    /\ binprog' = <<>>
    /\ command_index' = 0
    /\ current_command' = None
    /\ ram_address' = 16
    /\ pc' = "pass2"
    /\ UNCHANGED <<history, lines, commands, symbol_table, rom_address>>

\* Lines 108-113: the second pass skips a label.
Pass2Label ==
    /\ pc = "pass2"
    /\ has_more_commands
    /\ advance
    /\ command_type(current_command') = L_COMMAND
    /\ UNCHANGED <<history, lines, commands, symbol_table, rom_address, ram_address,
                   binprog, pc>>

\* Lines 116-131, 145: the second pass on an A-command.
Pass2ACommand ==
    /\ pc = "pass2"
    /\ has_more_commands
    /\ advance
    /\ command_type(current_command') = A_COMMAND
    /\ LET r == Resolve(symbol(current_command'), symbol_table, ram_address)
       IN /\ symbol_table' = r.table
          /\ ram_address' = r.ram
          /\ binprog' = write(binprog, AWord(r.address))
    /\ UNCHANGED <<history, lines, commands, rom_address, pc>>

\* Lines 132-145: the second pass on a C-command whose lookups succeed.
Pass2CCommand ==
    /\ pc = "pass2"
    /\ has_more_commands
    /\ advance
    /\ command_type(current_command') = C_COMMAND
    /\ CWord(current_command') # KeyError
    /\ binprog' = write(binprog, CWord(current_command'))
    /\ UNCHANGED <<history, lines, commands, symbol_table, rom_address, ram_address, pc>>

\* Lines 134-140: a lookup raises KeyError; nothing catches it and the
\* process ends before line 145.
Pass2KeyError ==
    /\ pc = "pass2"
    /\ has_more_commands
    /\ advance
    /\ command_type(current_command') = C_COMMAND
    /\ CWord(current_command') = KeyError
    /\ pc' = "error"
    /\ UNCHANGED <<history, lines, commands, symbol_table, rom_address, ram_address,
                   binprog>>

\* Line 148: the second loop is over and the file is closed.
Close ==
    /\ pc = "pass2"
    /\ ~has_more_commands
    /\ pc' = "done"
    /\ UNCHANGED <<history, lines, commands, command_index, current_command,
                   symbol_table, rom_address, ram_address, binprog>>

Next ==
    \/ Pass1Label
    \/ Pass1Instruction
    \/ Rewind
    \/ Pass2Label
    \/ Pass2ACommand
    \/ Pass2CCommand
    \/ Pass2KeyError
    \/ Close

Spec == Init /\ [][Next]_vars

\* The program is one sequential process: as long as a step is possible the
\* interpreter takes it.
FairVocab ==
    { <<"@", "2">>,
      <<"(", "L", "O", "O", "P", ")">>,
      <<"@", "L", "O", "O", "P">>,
      <<"@", "f", "o", "o">>,
      <<"0", ";", "J", "M", "P", "\n">>,
      <<"D", "=", "X">> }

InitFair == InitOn(SeqsUpTo(FairVocab, MaxLen))

SpecFair == InitFair /\ [][Next]_vars /\ WF_vars(Next)

\* Raw lines over a blank, the comment character and a command character.
LineAlphabet == {" ", "/", "@"}

RawLines == SeqsUpTo(LineAlphabet, MaxLineLen)

\* The empty file, and the files of one line and of two lines.
LinePrograms ==
    {<<>>} \cup {<<a>> : a \in RawLines} \cup {<<a, b>> : a, b \in RawLines}

InitLines == InitOn(LinePrograms)

\* Such lines give A-commands and C-commands with an unknown mnemonic.
NextLines ==
    \/ Pass1Instruction
    \/ Rewind
    \/ Pass2ACommand
    \/ Pass2KeyError
    \/ Close

SpecLines == InitLines /\ [][NextLines]_vars

\* Variant: the ROM counter of the first run is carried into the second.
Rerun_keepsRomAddress ==
    /\ run = 1
    /\ pc \in {"done", "error"}
    /\ run' = 2
    /\ first_binprog' = binprog
    /\ first_symbol_table' = symbol_table
    /\ first_pc' = pc
    /\ commands' = Parser_init(lines)
    /\ command_index' = 0
    /\ current_command' = None
    /\ symbol_table' = SymbolTable_init
    /\ ram_address' = 0
    /\ binprog' = <<>>
    /\ pc' = "pass1"
    /\ UNCHANGED <<lines, rom_address>>

\* The program is run once more on the same input file after the first run
\* ended (line 358, then lines 57-73): the parser reads the file again, the
\* symbol table is a new SymbolTable() and the counters are new locals.
Rerun ==
    /\ run = 1
    /\ pc \in {"done", "error"}
    /\ run' = 2
    /\ first_binprog' = binprog
    /\ first_symbol_table' = symbol_table
    /\ first_pc' = pc
    /\ commands' = Parser_init(lines)
    /\ command_index' = 0
    /\ current_command' = None
    /\ symbol_table' = SymbolTable_init
    /\ rom_address' = 0
    /\ ram_address' = 0
    /\ binprog' = <<>>
    /\ pc' = "pass1"
    /\ UNCHANGED lines

RerunVocab ==
    { <<"@", "2">>,
      <<"(", "L", "O", "O", "P", ")">>,
      <<"@", "L", "O", "O", "P">>,
      <<"@", "K", "B", "D">>,
      <<"@", "f", "o", "o">>,
      <<"@", "b", "a", "r">>,
      <<" ", "D", " ", "=", "A", "\t", "/", "/", "c", "\n">>,
      <<"D", "=", "X">> }

InitRerun == InitOn(SeqsUpTo(RerunVocab, MaxLen))

NextRerun ==
    \/ Next
    \/ Rerun

SpecRerun == InitRerun /\ [][NextRerun]_vars

\* The text dest=comp;jump of a C-command, dest= and ;jump left out when
\* absent.
BuildC(d, c, j) ==
    (IF d = None THEN <<>> ELSE d \o <<"=">>) \o c \o
    (IF j = None THEN <<>> ELSE <<";">> \o j)

\* Every C-command over the three tables, one per program.
CCommandPrograms ==
    { <<BuildC(d, c, j)>> : d \in DOMAIN dest_table \cup {None},
                            c \in DOMAIN comp_table,
                            j \in DOMAIN jump_table \cup {None} }

InitCode == InitOn(CCommandPrograms)

NextCode ==
    \/ Pass1Instruction
    \/ Rewind
    \/ Pass2CCommand
    \/ Close

SpecCode == InitCode /\ [][NextCode]_vars

TypeOK ==
    /\ pc \in {"pass1", "pass2", "done", "error"}
    /\ command_index \in 0..Len(commands)
    /\ Len(commands) <= Len(lines)

\* ------------------------------------------------------------------------
\* Vocabulary of the properties
\* ------------------------------------------------------------------------
Bits == {"0", "1"}

IsLabelCommand(cmd) == command_type(cmd) = L_COMMAND

\* The commands at positions 1..n that are not labels: the ROM address of
\* the instruction that follows position n.
InstructionsUpTo(n) ==
    Cardinality({j \in 1..n : ~IsLabelCommand(commands[j])})

\* The position in the output of the word of the instruction at position i.
WordIndex(i) == InstructionsUpTo(i)

\* The number a string of binary digits denotes.
RECURSIVE BitsValue(_)
BitsValue(w) ==
    IF Len(w) = 0 THEN 0
    ELSE 2 * BitsValue(SubSeq(w, 1, Len(w) - 1)) + (IF w[Len(w)] = "1" THEN 1 ELSE 0)

IsWord16(w) == Len(w) = 16 /\ \A k \in 1..16 : w[k] \in Bits

\* The second pass has handled the commands at positions 1..Processed (the
\* command a KeyError stopped at emitted nothing).
InPass2 == pc \in {"pass2", "done", "error"}
Processed == IF pc = "error" THEN command_index - 1 ELSE command_index

\* The symbols declared by some label command of the program.
LabelSymbols == {symbol(commands[i]) : i \in {j \in 1..Len(commands) : IsLabelCommand(commands[j])}}

\* The position of the first label command that declares sym.
FirstDeclaration(sym) ==
    CHOOSE i \in 1..Len(commands) :
        /\ IsLabelCommand(commands[i]) /\ symbol(commands[i]) = sym
        /\ \A j \in 1..(i - 1) : ~(IsLabelCommand(commands[j]) /\ symbol(commands[j]) = sym)

IsACommand(i) == command_type(commands[i]) = A_COMMAND
IsCCommand(i) == command_type(commands[i]) = C_COMMAND

\* ------------------------------------------------------------------------
\* C1: when translation completes, the output holds exactly one word per
\* non-label command, in source order (an address word where the command is
\* an address command, carrying its literal, a computation word where it is
\* a computation command), none for a label; an empty command stream ends
\* with no word and without error.
\* ------------------------------------------------------------------------
C1_OneWordPerInstruction ==
    /\ (pc = "done" =>
          /\ Len(binprog) = InstructionsUpTo(Len(commands))
          /\ \A i \in 1..Len(commands) :
                /\ IsACommand(i) =>
                      /\ binprog[WordIndex(i)][1] = "0"
                      /\ isdigit(symbol(commands[i])) =>
                            BitsValue(binprog[WordIndex(i)]) = int(symbol(commands[i]))
                /\ IsCCommand(i) =>
                      SubSeq(binprog[WordIndex(i)], 1, 3) = <<"1", "1", "1">>)
    /\ (commands = <<>> => pc # "error" /\ binprog = <<>>)

C1_Witness ==
    /\ pc = "done"
    /\ Len(commands) = 3
    /\ IsACommand(1) /\ IsLabelCommand(commands[2]) /\ IsCCommand(3)
    /\ Len(binprog) = 2

\* ------------------------------------------------------------------------
\* C2: every emitted word is 16 characters of 0/1; an address word has
\* leading bit 0 and the resolved address in the low 15 bits, a computation
\* word starts with 111.
\* ------------------------------------------------------------------------
C2_EveryWordIs16Bits ==
    InPass2 =>
       \A i \in 1..Processed :
          ~IsLabelCommand(commands[i]) =>
             LET w == binprog[WordIndex(i)]
             IN /\ IsWord16(w)
                /\ IsACommand(i) =>
                      /\ w[1] = "0"
                      /\ isdigit(symbol(commands[i])) =>
                            BitsValue(SubSeq(w, 2, 16)) = int(symbol(commands[i]))
                      /\ ~isdigit(symbol(commands[i])) =>
                            BitsValue(SubSeq(w, 2, 16)) = symbol_table[symbol(commands[i])]
                /\ IsCCommand(i) => SubSeq(w, 1, 3) = <<"1", "1", "1">>

\* ------------------------------------------------------------------------
\* C3: a step of pass 2 on an address command with a literal n, 0 <= n <=
\* 32767, appends the 16-bit binary representation of n (leading bit 0) and
\* leaves the symbol table and the RAM counter as they were, whatever the
\* symbol table holds.
\* ------------------------------------------------------------------------
LiteralStep ==
    /\ pc = "pass2"
    /\ command_index' = command_index + 1
    /\ command_type(current_command') = A_COMMAND
    /\ isdigit(symbol(current_command'))
    /\ int(symbol(current_command')) <= 32767

C3_LiteralAddress ==
    [][LiteralStep =>
          /\ Len(binprog') = Len(binprog) + 1
          /\ SubSeq(binprog', 1, Len(binprog)) = binprog
          /\ IsWord16(binprog'[Len(binprog')])
          /\ binprog'[Len(binprog')][1] = "0"
          /\ BitsValue(binprog'[Len(binprog')]) = int(symbol(current_command'))
          /\ UNCHANGED <<symbol_table, ram_address>>]_vars

\* The literal 2 has been translated while the symbol table maps the symbol
\* "2" (a label) to another address.
C3_Witness ==
    /\ pc = "pass2"
    /\ current_command = <<"@", "2">>
    /\ <<"2">> \in DOMAIN symbol_table
    /\ symbol_table[<<"2">>] # 2
    /\ BitsValue(binprog[Len(binprog)]) = 2

\* ------------------------------------------------------------------------
\* C4 as stated: after pass 1 the symbol of every label command maps to the
\* number of non-label commands that precede that label command.
\* ------------------------------------------------------------------------
C4_EveryLabelCommand ==
    InPass2 =>
       \A i \in 1..Len(commands) :
          IsLabelCommand(commands[i]) =>
             /\ symbol(commands[i]) \in DOMAIN symbol_table
             /\ symbol_table[symbol(commands[i])] = InstructionsUpTo(i)

\* C4 amended: after pass 1 the symbol of every label command that is the
\* first declaration of its symbol maps to the number of non-label commands
\* that precede it (the total instruction count if none follows); a later
\* declaration of the same symbol keeps the first address.
C4_FirstLabelDeclaration ==
    InPass2 =>
       \A i \in 1..Len(commands) :
          IsLabelCommand(commands[i]) =>
             /\ symbol(commands[i]) \in DOMAIN symbol_table
             /\ symbol_table[symbol(commands[i])] =
                   InstructionsUpTo(FirstDeclaration(symbol(commands[i])))

\* A label after an instruction and before another, and a label that ends
\* the program.
C4_Witness ==
    /\ pc = "pass2"
    /\ Len(commands) = 3
    /\ ~IsLabelCommand(commands[1])
    /\ IsLabelCommand(commands[2]) /\ IsLabelCommand(commands[3])
    /\ symbol(commands[2]) # symbol(commands[3])
    /\ symbol_table[symbol(commands[2])] = 1
    /\ symbol_table[symbol(commands[3])] = 1

\* ------------------------------------------------------------------------
\* C5: the symbols of address commands that are neither literals, nor
\* predefined, nor declared as a label anywhere get 16, 17, 18, ... in order
\* of first appearance; every reference emits that address, and the RAM
\* counter is 16 plus the number of distinct such symbols met so far.
\* ------------------------------------------------------------------------
IsVariableSymbol(sym) ==
    /\ ~isdigit(sym)
    /\ sym \notin DOMAIN predefined_variable_symbols
    /\ sym \notin LabelSymbols

IsVariableReference(i) == IsACommand(i) /\ IsVariableSymbol(symbol(commands[i]))

\* The distinct variables first referenced at positions 1..n.
VariablesUpTo(n) == {symbol(commands[j]) : j \in {k \in 1..n : IsVariableReference(k)}}

FirstReference(sym) ==
    CHOOSE i \in 1..Len(commands) :
        /\ IsACommand(i) /\ symbol(commands[i]) = sym
        /\ \A j \in 1..(i - 1) : ~(IsACommand(j) /\ symbol(commands[j]) = sym)

C5_VariablesFrom16 ==
    InPass2 =>
       /\ ram_address = 16 + Cardinality(VariablesUpTo(Processed))
       /\ \A i \in 1..Processed :
             IsVariableReference(i) =>
                LET sym == symbol(commands[i])
                    k == Cardinality(VariablesUpTo(FirstReference(sym) - 1))
                IN /\ symbol_table[sym] = 16 + k
                   /\ BitsValue(binprog[WordIndex(i)]) = 16 + k

\* foo, bar, foo again: 16, 17, 16 and the counter at 18.
C5_Witness ==
    /\ pc = "done"
    /\ commands = << <<"@", "f", "o", "o">>, <<"@", "b", "a", "r">>, <<"@", "f", "o", "o">> >>
    /\ BitsValue(binprog[1]) = 16
    /\ BitsValue(binprog[2]) = 17
    /\ BitsValue(binprog[3]) = 16
    /\ ram_address = 18

\* ------------------------------------------------------------------------
\* C6 as stated: a step of pass 2 on an address command that names a
\* predefined symbol emits that symbol's fixed address and leaves the RAM
\* counter unchanged, in every program.
\* ------------------------------------------------------------------------
PredefinedStep ==
    /\ pc = "pass2"
    /\ command_index' = command_index + 1
    /\ command_type(current_command') = A_COMMAND
    /\ symbol(current_command') \in DOMAIN predefined_variable_symbols

C6_PredefinedAddress ==
    [][PredefinedStep =>
          /\ Len(binprog') = Len(binprog) + 1
          /\ BitsValue(binprog'[Len(binprog')]) =
                predefined_variable_symbols[symbol(current_command')]
          /\ UNCHANGED ram_address]_vars

\* ------------------------------------------------------------------------
\* C7 as stated: a step of pass 2 on an address command whose symbol is
\* declared as a label somewhere in the program, before or after, emits the
\* label's pass-1 address and allocates nothing.
\* ------------------------------------------------------------------------
LabelReferenceStep ==
    /\ pc = "pass2"
    /\ command_index' = command_index + 1
    /\ command_type(current_command') = A_COMMAND
    /\ symbol(current_command') \in LabelSymbols

ResolvesToLabel ==
    /\ Len(binprog') = Len(binprog) + 1
    /\ BitsValue(binprog'[Len(binprog')]) =
          InstructionsUpTo(FirstDeclaration(symbol(current_command')))
    /\ UNCHANGED <<symbol_table, ram_address>>

C7_LabelReference == [][LabelReferenceStep => ResolvesToLabel]_vars

\* C7 amended: the same for every such symbol that is not a literal integer
\* (a literal is used as a number even when a label of that name exists).
C7_SymbolicLabelReference ==
    [][(LabelReferenceStep /\ ~isdigit(symbol(current_command'))) => ResolvesToLabel]_vars

\* LOOP referenced before and after its declaration at ROM address 1.
C7_Witness ==
    /\ pc = "done"
    /\ commands = << <<"@", "L", "O", "O", "P">>, <<"(", "L", "O", "O", "P", ")">>,
                     <<"@", "L", "O", "O", "P">> >>
    /\ BitsValue(binprog[1]) = 1
    /\ BitsValue(binprog[2]) = 1
    /\ ram_address = 16

\* ------------------------------------------------------------------------
\* C8: the word of a computation command dest=comp;jump over the three
\* tables is 111, the 7-bit comp code, the 3-bit dest code, the 3-bit jump
\* code, an absent dest or jump giving 000: the slices 4..10, 11..13 and
\* 14..16 of the word are the three codes.
\* ------------------------------------------------------------------------
C8_FieldsRoundTrip ==
    pc = "done" =>
       \A d \in DOMAIN dest_table \cup {None}, c \in DOMAIN comp_table,
          j \in DOMAIN jump_table \cup {None} :
          commands = <<BuildC(d, c, j)>> =>
             /\ Len(binprog) = 1
             /\ Len(binprog[1]) = 16
             /\ SubSeq(binprog[1], 1, 3) = <<"1", "1", "1">>
             /\ SubSeq(binprog[1], 4, 10) = comp_table[c]
             /\ SubSeq(binprog[1], 11, 13) =
                   (IF d = None THEN <<"0", "0", "0">> ELSE dest_table[d])
             /\ SubSeq(binprog[1], 14, 16) =
                   (IF j = None THEN <<"0", "0", "0">> ELSE jump_table[j])

\* AM=M-1;JEQ has been translated.
C8_Witness ==
    /\ pc = "done"
    /\ commands = << <<"A", "M", "=", "M", "-", "1", ";", "J", "E", "Q">> >>
    /\ binprog = << <<"1", "1", "1", "1", "1", "1", "0", "0", "1", "0",
                      "1", "0", "1", "0", "1", "0">> >>

\* ------------------------------------------------------------------------
\* C9: once the cursor of pass 2 has reached a computation command whose
\* comp part is not a key of the comp table, the run is in the error state
\* with the cursor still on that command, and the output holds only the
\* words of the instructions before it.
\* ------------------------------------------------------------------------
HasUnknownComp(i) ==
    IsCCommand(i) /\ Parser_comp(commands[i]) \notin DOMAIN comp_table

C9_UnknownCompIsFatal ==
    InPass2 =>
       \A i \in 1..command_index :
          HasUnknownComp(i) =>
             /\ pc = "error"
             /\ command_index = i
             /\ Len(binprog) = InstructionsUpTo(i - 1)

\* The run stopped on the second of three commands with one word written.
C9_Witness ==
    /\ pc = "error"
    /\ Len(commands) = 3
    /\ command_index = 2
    /\ HasUnknownComp(2)
    /\ ~IsLabelCommand(commands[3])
    /\ Len(binprog) = 1

\* ------------------------------------------------------------------------
\* C10 as stated: a run that ends in the error state has left none of the
\* earlier words in the output.
\* ------------------------------------------------------------------------
C10_NoPartialOutput == pc = "error" => binprog = <<>>

NonBlankPositions(line) == {p \in 1..Len(line) : line[p] \notin Whitespace}

\* The k-th character of the line that is not whitespace.
NthNonBlank(line, k) ==
    line[CHOOSE p \in NonBlankPositions(line) :
            Cardinality({q \in NonBlankPositions(line) : q <= p}) = k]

\* r is the line without its whitespace, cut at the first "//".
IsStripped(line, r) ==
    LET n == Cardinality(NonBlankPositions(line))
        CommentAt(k) == /\ k + 1 <= n
                        /\ NthNonBlank(line, k) = "/"
                        /\ NthNonBlank(line, k + 1) = "/"
    IN /\ Len(r) <= n
       /\ \A k \in 1..Len(r) : r[k] = NthNonBlank(line, k) /\ ~CommentAt(k)
       /\ Len(r) < n => CommentAt(Len(r) + 1)

LineIsKept(i) == ~IsStripped(lines[i], <<>>)

KeptUpTo(n) == Cardinality({j \in 1..n : LineIsKept(j)})

C12_CommandsAreStrippedLines ==
    (pc = "pass1" /\ command_index = 0) =>
       /\ Len(commands) = KeptUpTo(Len(lines))
       /\ \A i \in 1..Len(lines) :
             LineIsKept(i) => IsStripped(lines[i], commands[KeptUpTo(i)])
       /\ \A k \in 1..Len(commands) :
             /\ Len(commands[k]) > 0
             /\ \A p \in 1..Len(commands[k]) : commands[k][p] \notin Whitespace
             /\ \A p \in 1..(Len(commands[k]) - 1) :
                   ~(commands[k][p] = "/" /\ commands[k][p + 1] = "/")

\* A comment marker written with a blank inside, then a command followed by
\* blanks: only the command is stored.
C12_Witness ==
    /\ pc = "pass1"
    /\ command_index = 0
    /\ lines = << <<"/", " ", "/">>, <<" ", "@", " ">> >>
    /\ commands = << <<"@">> >>

\* ------------------------------------------------------------------------
\* C13: for the command [dest=]comp[;jump] that pass 2 translates, over the
\* mnemonic vocabularies, with "=" only, ";" only, both or neither, dest()
\* is dest (None without "="), comp() is comp and jump() is jump (None
\* without ";").
\* ------------------------------------------------------------------------
C13_DecompositionIsTotal ==
    pc = "pass2" =>
       \A d \in DOMAIN dest_table \cup {None}, c \in DOMAIN comp_table,
          j \in DOMAIN jump_table \cup {None} :
          commands[1] = BuildC(d, c, j) =>
             /\ Parser_dest(commands[1]) = d
             /\ Parser_comp(commands[1]) = c
             /\ Parser_jump(commands[1]) = j

\* MD=D+1;JGE is the current command of pass 2, with its three parts.
C13_Witness ==
    /\ pc = "pass2"
    /\ current_command = <<"M", "D", "=", "D", "+", "1", ";", "J", "G", "E">>
    /\ Parser_dest(current_command) = <<"M", "D">>
    /\ Parser_comp(current_command) = <<"D", "+", "1">>
    /\ Parser_jump(current_command) = <<"J", "G", "E">>

\* ------------------------------------------------------------------------
\* C14: no step removes a symbol from the symbol table or changes its
\* address; a step that inserts nothing leaves the whole table unchanged,
\* so a label declared twice keeps its first address and a label shadows a
\* variable of the same name.
\* ------------------------------------------------------------------------
C14_EntriesAreImmutable ==
    [][/\ \A s \in DOMAIN symbol_table :
             s \in DOMAIN symbol_table' /\ symbol_table'[s] = symbol_table[s]
       /\ DOMAIN symbol_table' = DOMAIN symbol_table => symbol_table' = symbol_table
       /\ Cardinality(DOMAIN symbol_table') <= Cardinality(DOMAIN symbol_table) + 1]_vars

\* LOOP was declared at ROM address 0 and again at 1, and is still 0 after
\* pass 1.
C14_Witness ==
    /\ pc = "pass2"
    /\ commands = << <<"(", "L", "O", "O", "P", ")">>, <<"@", "2">>,
                     <<"(", "L", "O", "O", "P", ")">> >>
    /\ symbol_table[<<"L", "O", "O", "P">>] = 0
    /\ rom_address = 1

\* ------------------------------------------------------------------------
\* C15: the passes do not interleave. During pass 1 nothing is written and
\* the RAM counter is not bound, and only label symbols enter the table;
\* pass 2 starts only when pass 1 has consumed every command; from then on
\* pass 1 is never resumed, the ROM counter keeps its value, and the only
\* symbol that can enter the table is the symbol of the current A-command,
\* which is not a label.
\* ------------------------------------------------------------------------
C15_PassesInOrder ==
    [][/\ pc = "pass1" =>
             /\ binprog = <<>> /\ binprog' = <<>>
             /\ ram_address = 0
             /\ DOMAIN symbol_table' \subseteq LabelSymbols
             /\ pc' \in {"pass1", "pass2"}
             /\ pc' = "pass2" => command_index = Len(commands)
       /\ pc # "pass1" =>
             /\ pc' # "pass1"
             /\ rom_address' = rom_address
             /\ rom_address = InstructionsUpTo(Len(commands))
             /\ \A s \in DOMAIN symbol_table' \ DOMAIN symbol_table :
                   /\ command_type(current_command') = A_COMMAND
                   /\ s = symbol(current_command')
                   /\ s \notin LabelSymbols]_vars

\* Pass 2 is under way after a pass 1 that stored a label: a word has been
\* written and a variable allocated.
C15_Witness ==
    /\ pc = "pass2"
    /\ command_index = 2
    /\ IsLabelCommand(commands[1])
    /\ symbol(commands[1]) \in DOMAIN symbol_table
    /\ Len(binprog) = 1
    /\ ram_address = 17
    /\ rom_address = 2

\* ------------------------------------------------------------------------
\* C16: no step changes the command list. The cursor stays in
\* 0..Len(commands); it moves only by advance, one command forward and only
\* when there are more commands, the current command being the one passed,
\* or by the rewind between the passes, which puts it back to 0 with no
\* current command; so pass 2 visits the commands of pass 1 in the same
\* order.
\* ------------------------------------------------------------------------
C16_CommandListIsFrozen ==
    [][/\ commands' = commands
       /\ command_index' \in 0..Len(commands)
       /\ (pc = "pass1" /\ pc' = "pass2") =>
             command_index' = 0 /\ current_command' = None
       /\ ~(pc = "pass1" /\ pc' = "pass2") =>
             /\ command_index < Len(commands)
             /\ command_index' = command_index + 1
             /\ current_command' = commands[command_index']
          \/ /\ command_index' = command_index
             /\ current_command' = current_command]_vars

\* Both passes have visited the three commands.
C16_Witness ==
    /\ pc = "done"
    /\ Len(commands) = 3
    /\ command_index = 3
    /\ current_command = commands[3]
    /\ rom_address + Cardinality({i \in 1..3 : IsLabelCommand(commands[i])}) = 3

\* ------------------------------------------------------------------------
\* C17: pass 1 cannot fail. Every command is non-empty, so its first
\* character can be read; during pass 1 a step of pass 1 is always possible
\* (an iteration, or the end of the loop), whatever the mnemonics of the
\* commands, and nothing has been written; the error state is entered only
\* after pass 2 has started.
\* ------------------------------------------------------------------------
C17_Pass1CannotFail ==
    /\ \A i \in 1..Len(commands) : Len(commands[i]) > 0
    /\ pc = "pass1" =>
          /\ binprog = <<>>
          /\ ENABLED (Pass1Label \/ Pass1Instruction \/ Rewind)
    /\ pc = "error" => ram_address >= 16

\* Pass 1 has run to its end over a stream with an unknown mnemonic.
C17_Witness ==
    /\ pc = "pass2"
    /\ command_index = 0
    /\ Len(commands) = 3
    /\ HasUnknownComp(2)
    /\ rom_address = 3
    /\ binprog = <<>>

\* ------------------------------------------------------------------------
\* C18: every run comes to an end, in one of two states and no other:
\* completed, both passes having consumed every command, or stopped in
\* pass 2 on a C-command with a mnemonic that a table lacks; no step leaves
\* these states.
\* ------------------------------------------------------------------------
Terminated == pc \in {"done", "error"}

C18_RunTerminates ==
    /\ <>Terminated
    /\ [](pc = "done" =>
             /\ command_index = Len(commands)
             /\ rom_address = InstructionsUpTo(Len(commands))
             /\ Len(binprog) = rom_address)
    /\ [](pc = "error" =>
             /\ ram_address >= 16
             /\ command_index >= 1
             /\ IsCCommand(command_index)
             /\ CWord(commands[command_index]) = KeyError)
    /\ [](Terminated <=> ~ENABLED Next)

\* A run of three commands is over, stopped by the third.
C18_Witness ==
    /\ pc = "error"
    /\ Len(commands) = 3
    /\ command_index = 3
    /\ Len(binprog) = 2

\* ------------------------------------------------------------------------
\* C19 as stated: from before the first command of pass 1 on, the symbol
\* table holds every predefined symbol at its fixed address, so that a label
\* named like a predefined symbol does not change it.
\* ------------------------------------------------------------------------
C19_PredefinedSeeded ==
    \A s \in DOMAIN predefined_variable_symbols :
       /\ contains(symbol_table, s)
       /\ symbol_table[s] = predefined_variable_symbols[s]

\* ------------------------------------------------------------------------
\* C20: in one run, the address commands that name the same symbol have all
\* emitted the same word.
\* ------------------------------------------------------------------------
C20_SameSymbolSameWord ==
    InPass2 =>
       \A i, j \in 1..Processed :
          (IsACommand(i) /\ IsACommand(j) /\ symbol(commands[i]) = symbol(commands[j])) =>
             binprog[WordIndex(i)] = binprog[WordIndex(j)]

\* bar, foo, bar again: the first and the third word are the same, the
\* second is another.
C20_Witness ==
    /\ pc = "done"
    /\ commands = << <<"@", "b", "a", "r">>, <<"@", "f", "o", "o">>, <<"@", "b", "a", "r">> >>
    /\ binprog[1] = binprog[3]
    /\ binprog[1] # binprog[2]
====
